---- MODULE Spec2Model ----
(***************************************************************************)
(* Model of until_stream_is_ready (03-Streaming-Deployment.py, 202-211)    *)
(* running against the streaming engine's active-query registry.           *)
(*                                                                         *)
(* The waiter is one thread of control whose program counter is the source *)
(* line it is about to execute.  The engine's steps (a query starts, a     *)
(* query reports progress, a query is stopped) interleave freely with the  *)
(* waiter's lines, because the engine runs in threads of its own.          *)
(***************************************************************************)
EXTENDS Integers, Sequences, FiniteSets

\* ---------------------------------------------------------------- bounds
MaxJobs == 2            \* query handles the engine can hand out
MaxProgress == 3        \* progress reports one query gets to append
MaxPolls == 4           \* polls the history counts exactly

\* ------------------------------------------------------------- constants
my_stream_name == "lesson03_stream"
OtherName == "other_stream"
NoName == ""
progressions == 3       \* def until_stream_is_ready(name, progressions=3)
NoRead == -1            \* the length was not read (short-circuit of `or`)

Jobs == 1..MaxJobs
Names == {my_stream_name, OtherName}

VARIABLES
    status,        \* engine: query handle -> "new" | "active" | "stopped"
    jobName,       \* engine: query handle -> query.name
    progress,      \* engine: query handle -> len(query.recentProgress)
    name,          \* waiter: argument `name`
    pc,            \* waiter: the line about to run, or "returned"/"error"
    queries,       \* waiter: local `queries`, a sequence of query handles
    seen,          \* waiter: len(queries[0].recentProgress) as last read
    out,           \* standard output: the messages printed so far
    hist,          \* TRUE in the runs that keep the poll history below
    polls,         \* history: tests of the loop condition so far
    sleeps,        \* history: completed time.sleep(5) calls
    readyAtFirst,  \* history: the named query was ready when line 204 ran
    fell,          \* history: some test read a shorter log than the test before
    staleWaits     \* history: waits decided while the query was ready

vars == <<status, jobName, progress, name, pc, queries, seen, out,
          hist, polls, sleeps, readyAtFirst, fell, staleWaits>>

Min(a, b) == IF a < b THEN a ELSE b

\* ------------------------------------------------------------ the engine
\* spark.streams.active: the handles of the active queries
ActiveIn(st) == {j \in Jobs : st[j] = "active"}

active == ActiveIn(status)

\* Every enumeration order of a finite set of handles
Enumerations(S) ==
    {s \in [1..Cardinality(S) -> S] :
        \A i, k \in 1..Cardinality(S) : s[i] = s[k] => i = k}

\* ------------------------------------------------------------ the waiter
\* list(filter(lambda query: query.name == name, spark.streams.active)):
\* the matching handles, in whatever order the registry enumerates them.
\* The previous value of `queries` is overwritten.
CachedFilterActive(prev, act, nm, n) ==
    IF Len(prev) > 0 THEN {prev} ELSE Enumerations({j \in act : nm[j] = n})

AnyNameFilterActive(prev, act, nm, n) == Enumerations(act)

FilterActive(prev, act, nm, n) == Enumerations({j \in act : nm[j] = n})

\* The loop condition of line 207, evaluated left to right with the
\* short-circuit of `or`: "wait" when it is true, "exit" when it is false,
\* "error" when evaluating it raises.
EarlyLoopCond(q, pr, n) ==
    IF Len(q) = 0 THEN "wait"
    ELSE IF pr[q[1]] < n - 1 THEN "wait"
    ELSE "exit"

LateLoopCond(q, pr, n) ==
    IF Len(q) = 0 THEN "wait"
    ELSE IF pr[q[1]] <= n THEN "wait"
    ELSE "exit"

AnyMatchLoopCond(q, pr, n) ==
    IF Len(q) = 0 THEN "wait"
    ELSE IF \A i \in 1..Len(q) : pr[q[i]] < n THEN "wait"
    ELSE "exit"

NoGuardLoopCond(q, pr, n) ==
    IF Len(q) = 0 THEN "error"
    ELSE IF pr[q[1]] < n THEN "wait"
    ELSE "exit"

LoopCond(q, pr, n) ==
    IF Len(q) = 0 THEN "wait"
    ELSE IF pr[q[1]] < n THEN "wait"
    ELSE "exit"

\* The length the condition reads, NoRead when `or` short-circuits
LengthRead(q, pr) == IF Len(q) = 0 THEN NoRead ELSE pr[q[1]]

\* f"The stream {name} is active and ready."
AnonymousMessage(n) == <<"The stream ", " is active and ready.">>

Message(n) == <<"The stream ", n, " is active and ready.">>

\* What a line of the waiter does to the engine's registry: it only reads
\* spark.streams.active, query.name and query.recentProgress.
StoppingWaiterEffect(st) ==
    [j \in Jobs |-> IF st[j] = "active" THEN "stopped" ELSE st[j]]

WaiterEffect(st) == st

\* ------------------------------------------------------- history helpers
\* The named query is the only active one of its name and has reported at
\* least `progressions` times.
ReadyIn(st, nm, pr) ==
    \E j \in ActiveIn(st) :
        /\ nm[j] = name
        /\ pr[j] >= progressions
        /\ \A k \in ActiveIn(st) : nm[k] = name => k = j

Ready == ReadyIn(status, jobName, progress)

\* A query of the waiter's name has been in spark.streams.active at some
\* time (a handle never goes back to "new").
EverPresent == \E j \in Jobs : status[j] # "new" /\ jobName[j] = name

Waiting == pc \in {"l204", "l207", "l208", "l209"}

\* The counters are exact up to MaxPolls and saturate right above it.
Count(c) == IF hist THEN Min(c + 1, MaxPolls + 1) ELSE c

\* --------------------------------------------------------------- initial
InitCall ==
    /\ status = [j \in Jobs |-> "new"]
    /\ jobName = [j \in Jobs |-> NoName]
    /\ progress = [j \in Jobs |-> 0]
    /\ name = my_stream_name
    /\ pc = "l204"
    /\ queries = <<>>
    /\ seen = NoRead
    /\ out = <<>>
    /\ polls = 0
    /\ sleeps = 0
    /\ readyAtFirst = FALSE
    /\ fell = FALSE
    /\ staleWaits = 0

Init == InitCall /\ hist = TRUE

PlainInit == InitCall /\ hist = FALSE

\* -------------------------------------------------------- engine actions
\* A streaming query is started under a name (display(..., streamName=) or
\* writeStream.queryName(...).start()) and joins spark.streams.active.  The
\* engine hands out its handles in order; the order in which the registry
\* enumerates them is left open (Enumerations).
StartJob(j, n) ==
    /\ status[j] = "new"
    /\ \A k \in Jobs : k < j => status[k] # "new"
    /\ status' = [status EXCEPT ![j] = "active"]
    /\ jobName' = [jobName EXCEPT ![j] = n]
    /\ staleWaits' = IF ReadyIn(status', jobName', progress) THEN staleWaits ELSE 0
    /\ UNCHANGED <<progress, name, pc, queries, seen, out, hist, polls, sleeps, readyAtFirst, fell>>

\* The engine appends one progress report to an active query's log.
AppendProgress(j) ==
    /\ status[j] = "active"
    /\ progress[j] < MaxProgress
    /\ progress' = [progress EXCEPT ![j] = @ + 1]
    /\ staleWaits' = IF ReadyIn(status, jobName, progress') THEN staleWaits ELSE 0
    /\ UNCHANGED <<status, jobName, name, pc, queries, seen, out, hist, polls, sleeps, readyAtFirst, fell>>

\* stream.stop(): the query leaves spark.streams.active; its handle and its
\* log stay readable.
StopJob(j) ==
    /\ status[j] = "active"
    /\ status' = [status EXCEPT ![j] = "stopped"]
    /\ staleWaits' = IF ReadyIn(status', jobName, progress) THEN staleWaits ELSE 0
    /\ UNCHANGED <<jobName, progress, name, pc, queries, seen, out, hist, polls, sleeps, readyAtFirst, fell>>

\* -------------------------------------------------------- waiter actions
\* line 204: query the registry
Filter204 ==
    /\ pc = "l204"
    /\ queries' \in FilterActive(queries, active, jobName, name)
    /\ pc' = "l207"
    /\ readyAtFirst' = (hist /\ Ready)
    /\ status' = WaiterEffect(status)
    /\ UNCHANGED <<jobName, progress, name, seen, out, hist, polls, sleeps, fell, staleWaits>>

\* line 207: one test of the while condition
Test207 ==
    /\ pc = "l207"
    /\ seen' = LengthRead(queries, progress)
    /\ pc' = CASE LoopCond(queries, progress, progressions) = "wait" -> "l208"
               [] LoopCond(queries, progress, progressions) = "exit" -> "l211"
               [] OTHER -> "error"
    /\ polls' = Count(polls)
    /\ fell' = (fell \/ (hist /\ seen' # NoRead /\ seen' < seen))
    /\ staleWaits' = IF Ready /\ pc' = "l208" THEN Min(staleWaits + 1, 2) ELSE staleWaits
    /\ status' = WaiterEffect(status)
    /\ UNCHANGED <<jobName, progress, name, queries, out, hist, sleeps, readyAtFirst>>

\* line 208: time.sleep(5)
Sleep208 ==
    /\ pc = "l208"
    /\ sleeps' = Count(sleeps)
    /\ pc' = "l209"
    /\ status' = WaiterEffect(status)
    /\ UNCHANGED <<jobName, progress, name, queries, seen, out, hist, polls, readyAtFirst, fell, staleWaits>>

\* line 209: query the registry again
Filter209 ==
    /\ pc = "l209"
    /\ queries' \in FilterActive(queries, active, jobName, name)
    /\ pc' = "l207"
    /\ status' = WaiterEffect(status)
    /\ UNCHANGED <<jobName, progress, name, seen, out, hist, polls, sleeps, readyAtFirst, fell, staleWaits>>

\* line 211: print the confirmation and return
Print211 ==
    /\ pc = "l211"
    /\ out' = Append(out, Message(name))
    /\ pc' = "returned"
    /\ status' = WaiterEffect(status)
    /\ UNCHANGED <<jobName, progress, name, queries, seen, hist, polls, sleeps, readyAtFirst, fell, staleWaits>>

WaiterStep == Filter204 \/ Test207 \/ Sleep208 \/ Filter209 \/ Print211

EngineStep ==
    \/ \E j \in Jobs, n \in Names : StartJob(j, n)
    \/ \E j \in Jobs : AppendProgress(j)
    \/ \E j \in Jobs : StopJob(j)

Next == WaiterStep \/ EngineStep

\* The runs that keep the poll history
Spec == Init /\ [][Next]_vars

\* The same program without the poll history
PlainSpec == PlainInit /\ [][Next]_vars

\* The calling thread is never starved: a line that can run eventually runs.
FairSpec == PlainInit /\ [][Next]_vars /\ WF_vars(WaiterStep)

\* ================================================================ claims

\* C1: the waiter leaves the loop only on a poll that found a query of the
\* requested name in the registry and read, from the first such query of
\* the enumeration, a progress length of at least `progressions`.
C1_ReturnObservedReady ==
    pc \in {"l211", "returned"} =>
        /\ Len(queries) > 0
        /\ jobName[queries[1]] = name
        /\ status[queries[1]] # "new"
        /\ seen >= progressions

C1_Witness == pc = "returned" /\ seen >= progressions /\ Len(queries) > 0

\* C2: in every state after the return, whatever the engine has done since,
\* the log of the query the waiter returned for holds at least
\* `progressions` reports.
C2_ReadyAfterReturn ==
    pc = "returned" =>
        \A j \in Jobs : (Len(queries) > 0 /\ queries[1] = j) => progress[j] >= progressions

C2_Witness ==
    /\ pc = "returned"
    /\ Len(queries) > 0
    /\ status[queries[1]] = "stopped"
    /\ \E k \in active : jobName[k] = name /\ progress[k] < progressions

\* C3: as long as no query of the requested name has ever been in the
\* registry, the waiter is still in its loop: it has neither returned nor
\* failed.
C3_HangsWithoutJob == ~EverPresent => Waiting

C3_Witness ==
    /\ ~EverPresent
    /\ pc = "l208"
    /\ seen = NoRead
    /\ \E j \in active : jobName[j] # name /\ progress[j] >= progressions

C5_ReturnsAtFirstReadyPoll ==
    polls <= MaxPolls =>
        /\ pc \in {"l211", "returned"} => (seen >= progressions /\ sleeps = polls - 1)
        /\ pc = "l208" => (seen < progressions /\ sleeps = polls - 1)
        /\ pc \in {"l207", "l209"} => (sleeps = polls /\ seen < progressions)
        /\ pc = "l204" => (polls = 0 /\ sleeps = 0)

\* threshold 3, lengths read never falling: the fourth poll is the first to
\* read 3, after three waits
C5_Witness ==
    /\ pc = "returned"
    /\ polls = 4
    /\ sleeps = 3
    /\ seen = 3
    /\ ~fell

\* C6: a test of the condition compares only the first query of the
\* filtered list with `progressions`: it exits when that one has reported
\* enough and waits when it has not, whatever the other queries of the same
\* name have reported.
C6_FirstMatchDecides ==
    [][(pc = "l207" /\ pc' # "l207" /\ Len(queries) > 0) =>
          \/ (progress[queries[1]] >= progressions /\ pc' = "l211")
          \/ (progress[queries[1]] < progressions /\ pc' = "l208")]_vars

C6_Witness ==
    /\ pc = "l208"
    /\ Len(queries) = 2
    /\ progress[queries[1]] < progressions
    /\ progress[queries[2]] >= progressions

\* C7: every poll recomputes the list from the registry as it is at that
\* poll and decides on the length it reads at that poll; nothing observed
\* at an earlier poll takes part.
C7_NoMemory ==
    [][/\ (pc \in {"l204", "l209"} /\ pc' = "l207") =>
              queries' \in Enumerations({j \in active : jobName[j] = name})
       /\ (pc = "l207" /\ pc' # "l207") =>
              /\ seen' = (IF Len(queries) = 0 THEN NoRead ELSE progress[queries[1]])
              /\ (pc' = "l211") = (seen' >= progressions)
              /\ (pc' = "l208") = (seen' < progressions)]_vars

\* the second poll read a shorter log than the first, and the waiter waits
C7_Witness == pc = "l208" /\ polls = 2 /\ fell /\ seen >= 0

\* C8: if from some point on the named query stays the only active query
\* of its name with enough reports, the waiter returns; a wait decided
\* while the query was already ready happens at most once; the waiter never
\* fails.
C8_EventuallyReturns ==
    /\ (<>[]Ready) => <>(pc = "returned")
    /\ [](staleWaits <= 1)
    /\ [](pc # "error")

C8_Witness == pc = "returned" /\ staleWaits = 1 /\ Ready

\* C9: the output is empty until the waiter returns and is the one message
\* naming the query from then on; after the return nothing of the waiter
\* changes any more.
C9_OneMessageOnReturn ==
    /\ [](pc # "returned" => out = <<>>)
    /\ [](pc = "returned" => out = << <<"The stream ", name, " is active and ready.">> >>)
    /\ [][pc = "returned" =>
            /\ pc' = "returned"
            /\ out' = out
            /\ queries' = queries
            /\ seen' = seen]_vars

C9_Witness == pc = "returned" /\ Len(out) = 1 /\ active = {}

\* C10: a step of the waiter leaves the registry, the names and the logs
\* as they are.
C10_WaiterOnlyObserves ==
    [][pc' # pc => (status' = status /\ jobName' = jobName /\ progress' = progress)]_vars

C10_Witness ==
    /\ pc = "returned"
    /\ \E j \in active : progress[j] >= progressions
    /\ \E j \in Jobs : status[j] = "new"

====
